---- MODULE Spec2Model ----
(***************************************************************************)
(* zlog: New folds an ordered option list over a buildCfg and assembles a  *)
(* Pair of zap loggers (access / error), each writing through              *)
(* tee(file, console) behind its own AtomicLevel gate; Pair.Sync flushes   *)
(* both loggers and aggregates the failures in a syncError.                *)
(*                                                                         *)
(* Four specifications share the variables:                                *)
(*   SpecNew   the option fold of New followed by the assembly of the Pair *)
(*   SpecEmit  emissions and SetLevel calls on a Pair built by New         *)
(*   SpecSync  repeated Pair.Sync calls on a Pair built by New             *)
(*   SpecTee   tee applied to two optional destinations, then used         *)
(***************************************************************************)
EXTENDS Integers, Sequences, FiniteSets

VARIABLES
    pc,        \* position: "fold" (New's option loop), "built", "run", "tee"
    opts,      \* the options New's loop has applied so far, in order
    cfg,       \* buildCfg
    pair,      \* the Pair New returned (NoPair before)
    levels,    \* the heap of AtomicLevel cells: gate reference -> level
    emits,     \* log of emission calls: pipeline, severity, whether the check passed
    pending,   \* indices of emissions that passed the check and are not written yet
    out,       \* what each sink holds: sink name -> sequence of emission indices
    lastSet,   \* per pipeline, the level last given to its gate through the Pair
    nsync,     \* number of Pair.Sync calls made
    failing,   \* leaf destinations whose flush fails during the current Sync call
    attempts,  \* leaf destinations whose flush the current call attempted, in order
    ret,       \* what the current Sync call returned
    newErr,    \* the failure New returned
    ws1, ws2,  \* tee's two arguments
    ws         \* tee's result

vars == <<pc, opts, cfg, pair, levels, emits, pending, out, lastSet, nsync, failing,
          attempts, ret, newErr, ws1, ws2, ws>>

(***************************************************************************)
(* Bounds                                                                  *)
(***************************************************************************)
MaxOpts == 2        \* options in the list passed to New
MaxZapOpts == 2     \* zap options in one WithZapOptions call
MaxEmits == 2       \* emission calls
MaxSyncs == 2       \* Pair.Sync calls
MaxTeeOps == 2      \* writes / flushes through a tee result

(***************************************************************************)
(* zapcore levels                                                          *)
(***************************************************************************)
DebugLevel == -1
InfoLevel == 0
ErrorLevel == 2
Levels == {DebugLevel, InfoLevel, ErrorLevel}

(***************************************************************************)
(* Option arguments                                                        *)
(***************************************************************************)
Paths == {"", "access.log", "error.log"}
ArgInts == {-1, 2}
Encoders == {"defaultEncoder", "customEncoder"}

\* zap.Option values.  lvl is used by AddStacktrace only.
ZapOpt(op, lvl) == [op |-> op, lvl |-> lvl]
AddCaller == ZapOpt("AddCaller", InfoLevel)
AddStacktrace(lvl) == ZapOpt("AddStacktrace", lvl)
\* what a caller may hand to WithZapOptions
CallerZapOpts == {ZapOpt("Development", InfoLevel), ZapOpt("WithCaller(false)", InfoLevel)}

SeqsUpTo(S, n) == UNION {[1..k -> S] : k \in 0..n}

(***************************************************************************)
(* buildCfg and the options (options.go)                                   *)
(***************************************************************************)
rotateCfg(path, maxSizeMB, maxBackups, maxAgeDays, compress) ==
    [Path |-> path, MaxSizeMB |-> maxSizeMB, MaxBackups |-> maxBackups,
     MaxAgeDays |-> maxAgeDays, Compress |-> compress]

\* the zero value rotateCfg{}
ZeroRotateCfg == rotateCfg("", 0, 0, 0, FALSE)

defaultEncoder == "defaultEncoder"

\* the buildCfg literal New starts from
DefaultCfg ==
    [access |-> ZeroRotateCfg,
     error |-> ZeroRotateCfg,
     consoleStdout |-> FALSE,
     consoleStderr |-> FALSE,
     enc |-> defaultEncoder,
     initialAccessLevel |-> InfoLevel,
     initialErrorLevel |-> ErrorLevel,
     zapOpts |-> <<>>]

\* ClampNeg with the normalisation left out
ClampNegMissing(x) == x

\* "if x < 0 { x = 0 }"
ClampNeg(x) == IF x < 0 THEN 0 ELSE x

\* the rotateCfg literal both file options build after normalising
NormalizedRotateCfg(path, maxSizeMB, maxBackups, maxAgeDays, compress) ==
    rotateCfg(path, ClampNeg(maxSizeMB), ClampNeg(maxBackups),
              ClampNeg(maxAgeDays), compress)

WithAccessFile(c, path, maxSizeMB, maxBackups, maxAgeDays, compress) ==
    [c EXCEPT !.access =
        NormalizedRotateCfg(path, maxSizeMB, maxBackups, maxAgeDays, compress)]

WithErrorFile(c, path, maxSizeMB, maxBackups, maxAgeDays, compress) ==
    [c EXCEPT !.error =
        NormalizedRotateCfg(path, maxSizeMB, maxBackups, maxAgeDays, compress)]

\* WithConsoleForAccess merging with the earlier value instead of replacing it
WithConsoleForAccessMerging(c, enable) ==
    [c EXCEPT !.consoleStdout = c.consoleStdout \/ enable]

WithConsoleForAccess(c, enable) == [c EXCEPT !.consoleStdout = enable]

\* WithConsoleForError writing the access console's field
WithConsoleForErrorWrongField(c, enable) == [c EXCEPT !.consoleStdout = enable]

WithConsoleForError(c, enable) == [c EXCEPT !.consoleStderr = enable]

WithInitialLevels(c, access, err) ==
    [c EXCEPT !.initialAccessLevel = access, !.initialErrorLevel = err]

WithEncoder(c, enc) == [c EXCEPT !.enc = enc]

WithZapOptions(c, zopts) == [c EXCEPT !.zapOpts = c.zapOpts \o zopts]

\* Option values as New receives them: the kind and the captured arguments.
OptFile(kind, path, maxSizeMB, maxBackups, maxAgeDays, compress) ==
    [kind |-> kind, path |-> path, maxSizeMB |-> maxSizeMB,
     maxBackups |-> maxBackups, maxAgeDays |-> maxAgeDays, compress |-> compress]
OptBool(kind, enable) == [kind |-> kind, enable |-> enable]
OptLevels(access, err) == [kind |-> "WithInitialLevels", access |-> access, err |-> err]
OptEncoder(enc) == [kind |-> "WithEncoder", enc |-> enc]
OptZap(zopts) == [kind |-> "WithZapOptions", zopts |-> zopts]

\* "o(&cfg)": one iteration of New's loop
ApplyOption(c, o) ==
    CASE o.kind = "WithAccessFile" ->
            WithAccessFile(c, o.path, o.maxSizeMB, o.maxBackups, o.maxAgeDays, o.compress)
      [] o.kind = "WithErrorFile" ->
            WithErrorFile(c, o.path, o.maxSizeMB, o.maxBackups, o.maxAgeDays, o.compress)
      [] o.kind = "WithConsoleForAccess" -> WithConsoleForAccess(c, o.enable)
      [] o.kind = "WithConsoleForError" -> WithConsoleForError(c, o.enable)
      [] o.kind = "WithInitialLevels" -> WithInitialLevels(c, o.access, o.err)
      [] o.kind = "WithEncoder" -> WithEncoder(c, o.enc)
      [] o.kind = "WithZapOptions" -> WithZapOptions(c, o.zopts)

RECURSIVE FoldOptions(_, _)
\* "for _, o := range opts { o(&cfg) }"
FoldOptions(c, ol) ==
    IF ol = <<>> THEN c ELSE FoldOptions(ApplyOption(c, Head(ol)), Tail(ol))

(***************************************************************************)
(* Destinations (zapcore.WriteSyncer)                                      *)
(***************************************************************************)
\* a nil zapcore.WriteSyncer
Nil == [kind |-> "nil"]

\* zapcore.AddSync(io.Discard)
Discard == [kind |-> "discard"]

\* zapcore.AddSync(&lumberjack.Logger{...}): the fields handed to the collaborator
Lumberjack(c) ==
    [kind |-> "rotate", Filename |-> c.Path, MaxSize |-> c.MaxSizeMB,
     MaxBackups |-> c.MaxBackups, MaxAge |-> c.MaxAgeDays, Compress |-> c.Compress]

\* zapcore.AddSync(os.Stdout) / zapcore.AddSync(os.Stderr)
Console(stream) == [kind |-> "console", stream |-> stream]

\* zapcore.NewMultiWriteSyncer(ws1, ws2)
NewMultiWriteSyncer(a, b) == [kind |-> "multi", first |-> a, second |-> b]

\* newRotateWriter returning no destination for an empty path
newRotateWriterNilOnEmpty(c) == IF c.Path = "" THEN Nil ELSE Lumberjack(c)

newRotateWriter(c) == IF c.Path = "" THEN Discard ELSE Lumberjack(c)

\* tee keeping only the first destination when both are present
teeDropsSecond(a, b) == IF a = Nil THEN b ELSE a

tee(a, b) ==
    CASE a = Nil -> b
      [] b = Nil -> a
      [] OTHER -> NewMultiWriteSyncer(a, b)

\* "var accessConsole zapcore.WriteSyncer; if cfg.consoleStdout { ... }"
accessConsole(c) == IF c.consoleStdout THEN Console("stdout") ELSE Nil

\* errorConsole wrapping standard-out
errorConsoleOnStdout(c) == IF c.consoleStderr THEN Console("stdout") ELSE Nil

\* "var errorConsole zapcore.WriteSyncer; if cfg.consoleStderr { ... }"
errorConsole(c) == IF c.consoleStderr THEN Console("stderr") ELSE Nil

\* the leaf destinations behind a destination, in the order a multi-writer visits them
Leaves(w) ==
    CASE w.kind = "nil" -> <<>>
      [] w.kind = "multi" -> <<w.first, w.second>>
      [] OTHER -> <<w>>

\* where a leaf destination's bytes land
SinkOf(w) == IF w.kind = "console" THEN w.stream ELSE w.Filename

Sinks == {"stdout", "stderr"} \cup (Paths \ {""})
NoOutput == [s \in Sinks |-> <<>>]

RECURSIVE WriteLeaves(_, _, _)
\* one Write call handed to each leaf in turn; the discarding leaf keeps nothing
WriteLeaves(ls, rec, o) ==
    IF ls = <<>> THEN o
    ELSE LET w == Head(ls)
             o1 == IF w.kind = "discard" THEN o
                   ELSE [o EXCEPT ![SinkOf(w)] = Append(@, rec)]
         IN WriteLeaves(Tail(ls), rec, o1)

\* WriteSyncer.Write
WSWrite(w, rec, o) == WriteLeaves(Leaves(w), rec, o)

\* A failure is the list of the leaf failures it carries (one entry for a plain
\* error, several for a combined one); the empty list is nil.
NilError == <<>>

\* multierr.Append
multierrAppend(a, b) == a \o b

\* Sync of a leaf wrapped by zapcore.AddSync, during a call in which the sinks
\* in F fail to flush.  The discarding writer has no flush of its own and never
\* fails; whether the flush of a rotating file or of a console stream fails is
\* decided by the collaborator behind it and is an input of the call.
LeafSync(w, F) ==
    IF w.kind # "discard" /\ SinkOf(w) \in F THEN <<SinkOf(w)>> ELSE NilError

RECURSIVE SyncLeaves(_, _)
\* the multi-writer's Sync: every leaf is flushed, the failures are appended
SyncLeaves(ls, F) ==
    IF ls = <<>> THEN [att |-> <<>>, err |-> NilError]
    ELSE LET r == SyncLeaves(Tail(ls), F)
         IN [att |-> <<Head(ls)>> \o r.att,
             err |-> multierrAppend(LeafSync(Head(ls), F), r.err)]

\* WriteSyncer.Sync: the flushes attempted, in order, and the failure returned
WSSync(w, F) == SyncLeaves(Leaves(w), F)

RECURSIVE JoinMsgs(_)
\* the message of a combined failure: the parts joined by "; "
JoinMsgs(e) ==
    IF Len(e) = 1 THEN <<e[1]>> ELSE <<e[1], "; ">> \o JoinMsgs(Tail(e))

\* error.Error() of a failure returned by a logger's Sync
ErrorMsg(e) == JoinMsgs(e)

(***************************************************************************)
(* Loggers (zap.New) and New                                               *)
(***************************************************************************)
makeCore(encCfg, w, lvl) == [enc |-> encCfg, out |-> w, lvl |-> lvl]

\* one zap.Option applied to a logger under construction
ApplyZapOpt(l, o) ==
    CASE o.op = "AddCaller" -> [l EXCEPT !.addCaller = TRUE]
      [] o.op = "WithCaller(false)" -> [l EXCEPT !.addCaller = FALSE]
      [] o.op = "AddStacktrace" -> [l EXCEPT !.addStack = <<o.lvl>>]
      [] o.op = "Development" -> [l EXCEPT !.development = TRUE]

RECURSIVE ApplyZapOpts(_, _)
ApplyZapOpts(l, zopts) ==
    IF zopts = <<>> THEN l ELSE ApplyZapOpts(ApplyZapOpt(l, Head(zopts)), Tail(zopts))

\* zap.New(core, options...): options apply in order to a logger that starts with
\* no caller annotation and no stack traces
zapNew(core, zopts) ==
    ApplyZapOpts([core |-> core, options |-> zopts, addCaller |-> FALSE,
                  addStack |-> <<>>, development |-> FALSE], zopts)

\* errOpts with the caller's options ahead of the built-ins
errOptsCallerFirst(c) == c.zapOpts \o <<AddCaller, AddStacktrace(ErrorLevel)>>

\* "errOpts := append([]zap.Option{zap.AddCaller(), zap.AddStacktrace(ErrorLevel)}, cfg.zapOpts...)"
errOpts(c) == <<AddCaller, AddStacktrace(ErrorLevel)>> \o c.zapOpts

\* the options handed to the access logger
accessOpts(c) == c.zapOpts

\* references to the two AtomicLevel cells New allocates, in allocation order
accessLevel == 1
errorLevel == 2

\* the two cells as zap.NewAtomicLevelAt initialises them
NewLevels(c) == <<c.initialAccessLevel, c.initialErrorLevel>>

\* accessCore gated by the error logger's level
accessCoreSharedGate(c) ==
    makeCore(c.enc, tee(newRotateWriter(c.access), accessConsole(c)), errorLevel)

accessCore(c) == makeCore(c.enc, tee(newRotateWriter(c.access), accessConsole(c)), accessLevel)

errorCore(c) == makeCore(c.enc, tee(newRotateWriter(c.error), errorConsole(c)), errorLevel)

\* the Pair literal New returns
NewPair(c) ==
    [Access |-> zapNew(accessCore(c), accessOpts(c)),
     Error |-> zapNew(errorCore(c), errOpts(c)),
     AccessLevel |-> accessLevel,
     ErrorLevel |-> errorLevel]

NoPair == [kind |-> "none"]
NoError == "nil"

(***************************************************************************)
(* Pair.Sync and syncError                                                 *)
(***************************************************************************)
NoLogger == [kind |-> "nil"]

\* zap.Logger.Sync: the core's Sync, which is its destination's
LoggerSync(l, F) == WSSync(l.core.out, F)

\* &syncError{errs: errs}
syncError(errs) == [nil |-> FALSE, errs |-> errs]
NoFailure == [nil |-> TRUE, errs |-> <<>>]

\* syncError.Error without the single-failure case
syncErrorMsgAlwaysGeneric(e) == <<"multiple sync errors occurred">>

\* syncError.Error
syncErrorMsg(e) ==
    IF Len(e.errs) = 1 THEN ErrorMsg(e.errs[1])
    ELSE <<"multiple sync errors occurred">>

\* syncError.Unwrap
Unwrap(e) == e.errs

\* Pair.Sync returning at the first failure
PairSyncShortCircuit(p, F) ==
    LET a == LoggerSync(p.Access, F)
        b == LoggerSync(p.Error, F)
    IN IF a.err # NilError
       THEN [att |-> a.att, ret |-> syncError(<<a.err>>)]
       ELSE [att |-> a.att \o b.att,
             ret |-> IF b.err # NilError THEN syncError(<<b.err>>) ELSE NoFailure]

\* Pair.Sync during a call in which the sinks in F fail to flush
PairSync(p, F) ==
    LET a == IF p.Access # NoLogger THEN LoggerSync(p.Access, F)
             ELSE [att |-> <<>>, err |-> NilError]
        errs1 == IF a.err # NilError THEN <<a.err>> ELSE <<>>
        b == IF p.Error # NoLogger THEN LoggerSync(p.Error, F)
             ELSE [att |-> <<>>, err |-> NilError]
        errs2 == IF b.err # NilError THEN Append(errs1, b.err) ELSE errs1
    IN [att |-> a.att \o b.att,
        ret |-> IF Len(errs2) > 0 THEN syncError(errs2) ELSE NoFailure]

(***************************************************************************)
(* SpecNew: New's option loop, one step per option, then the assembly      *)
(***************************************************************************)
Idle ==
    /\ levels = <<>> /\ emits = <<>> /\ pending = {} /\ out = NoOutput
    /\ lastSet = <<>>
    /\ nsync = 0 /\ failing = {} /\ attempts = <<>> /\ ret = NoFailure
    /\ ws1 = Nil /\ ws2 = Nil /\ ws = Nil

InitNew ==
    /\ pc = "fold" /\ opts = <<>> /\ cfg = DefaultCfg /\ pair = NoPair
    /\ newErr = NoError /\ Idle

Folding == pc = "fold" /\ Len(opts) < MaxOpts

RestOfNew == UNCHANGED <<pc, pair, levels, emits, pending, out, lastSet, nsync, failing,
                         attempts, ret, newErr, ws1, ws2, ws>>

FoldWithAccessFile ==
    /\ Folding
    /\ \E path \in Paths, maxSizeMB \in ArgInts, maxBackups \in ArgInts,
          maxAgeDays \in ArgInts, compress \in BOOLEAN :
          /\ opts' = Append(opts, OptFile("WithAccessFile", path, maxSizeMB,
                                          maxBackups, maxAgeDays, compress))
          /\ cfg' = WithAccessFile(cfg, path, maxSizeMB, maxBackups, maxAgeDays, compress)
    /\ RestOfNew

FoldWithErrorFile ==
    /\ Folding
    /\ \E path \in Paths, maxSizeMB \in ArgInts, maxBackups \in ArgInts,
          maxAgeDays \in ArgInts, compress \in BOOLEAN :
          /\ opts' = Append(opts, OptFile("WithErrorFile", path, maxSizeMB,
                                          maxBackups, maxAgeDays, compress))
          /\ cfg' = WithErrorFile(cfg, path, maxSizeMB, maxBackups, maxAgeDays, compress)
    /\ RestOfNew

FoldWithConsoleForAccess ==
    /\ Folding
    /\ \E enable \in BOOLEAN :
          /\ opts' = Append(opts, OptBool("WithConsoleForAccess", enable))
          /\ cfg' = WithConsoleForAccess(cfg, enable)
    /\ RestOfNew

FoldWithConsoleForError ==
    /\ Folding
    /\ \E enable \in BOOLEAN :
          /\ opts' = Append(opts, OptBool("WithConsoleForError", enable))
          /\ cfg' = WithConsoleForError(cfg, enable)
    /\ RestOfNew

FoldWithInitialLevels ==
    /\ Folding
    /\ \E access \in Levels, e \in Levels :
          /\ opts' = Append(opts, OptLevels(access, e))
          /\ cfg' = WithInitialLevels(cfg, access, e)
    /\ RestOfNew

FoldWithEncoder ==
    /\ Folding
    /\ \E enc \in Encoders :
          /\ opts' = Append(opts, OptEncoder(enc))
          /\ cfg' = WithEncoder(cfg, enc)
    /\ RestOfNew

FoldWithZapOptions ==
    /\ Folding
    /\ \E zopts \in SeqsUpTo(CallerZapOpts, MaxZapOpts) :
          /\ opts' = Append(opts, OptZap(zopts))
          /\ cfg' = WithZapOptions(cfg, zopts)
    /\ RestOfNew

\* New after its loop: levels, writers, cores, loggers, the Pair and a nil error
Build ==
    /\ pc = "fold"
    /\ pc' = "built"
    /\ levels' = NewLevels(cfg)
    /\ pair' = NewPair(cfg)
    /\ newErr' = NoError
    /\ UNCHANGED <<opts, cfg, emits, pending, out, lastSet, nsync, failing,
                   attempts, ret, ws1, ws2, ws>>

NextNew ==
    \/ FoldWithAccessFile
    \/ FoldWithErrorFile
    \/ FoldWithConsoleForAccess
    \/ FoldWithConsoleForError
    \/ FoldWithInitialLevels
    \/ FoldWithEncoder
    \/ FoldWithZapOptions
    \/ Build

SpecNew == InitNew /\ [][NextNew]_vars

(***************************************************************************)
(* Pairs the run-time specifications start from: New applied to an option  *)
(* list that chooses both files and both consoles                          *)
(***************************************************************************)
RunOptionLists ==
    {<<OptFile("WithAccessFile", pa, 0, 0, 0, FALSE),
       OptFile("WithErrorFile", pe, 0, 0, 0, FALSE),
       OptBool("WithConsoleForAccess", ca),
       OptBool("WithConsoleForError", ce)>> :
       pa \in {"", "access.log"}, pe \in {"", "error.log"},
       ca \in BOOLEAN, ce \in BOOLEAN}

InitRun ==
    /\ pc = "run"
    /\ opts \in RunOptionLists
    /\ cfg = FoldOptions(DefaultCfg, opts)
    /\ pair = NewPair(cfg)
    /\ levels = NewLevels(cfg)
    /\ newErr = NoError
    /\ lastSet = [access |-> cfg.initialAccessLevel, error |-> cfg.initialErrorLevel]
    /\ emits = <<>> /\ pending = {} /\ out = NoOutput
    /\ nsync = 0 /\ failing = {} /\ attempts = <<>> /\ ret = NoFailure
    /\ ws1 = Nil /\ ws2 = Nil /\ ws = Nil

(***************************************************************************)
(* SpecSync: repeated Pair.Sync calls                                      *)
(***************************************************************************)
Sync ==
    /\ pc = "run" /\ nsync < MaxSyncs
    /\ \E F \in SUBSET Sinks :
          LET r == PairSync(pair, F)
          IN /\ failing' = F
             /\ attempts' = r.att
             /\ ret' = r.ret
    /\ nsync' = nsync + 1
    /\ UNCHANGED <<pc, opts, cfg, pair, levels, emits, pending, out, lastSet,
                   newErr, ws1, ws2, ws>>

NextSync == Sync

SpecSync == InitRun /\ [][NextSync]_vars

(***************************************************************************)
(* SpecEmit: emissions through Pair.Access / Pair.Error and SetLevel on    *)
(* Pair.AccessLevel / Pair.ErrorLevel, interleaved.  An emission is two    *)
(* steps: the level check, then the write of the encoded record.           *)
(***************************************************************************)
\* zap.AtomicLevel.Enabled
Enabled(lvl, sev) == sev >= lvl

\* the check of an emission of severity sev on logger l
Check(l, pipe, sev) ==
    /\ pc = "run" /\ Len(emits) < MaxEmits
    /\ LET ok == Enabled(levels[l.core.lvl], sev)
       IN /\ emits' = Append(emits, [pipe |-> pipe, sev |-> sev, passed |-> ok])
          /\ pending' = IF ok THEN pending \cup {Len(emits) + 1} ELSE pending
    /\ UNCHANGED <<pc, opts, cfg, pair, levels, out, lastSet, nsync, failing,
                   attempts, ret, newErr, ws1, ws2, ws>>

EmitAccess == \E sev \in Levels : Check(pair.Access, "access", sev)

EmitError == \E sev \in Levels : Check(pair.Error, "error", sev)

\* the core writes a checked entry to its destination
WriteEntry ==
    /\ pc = "run"
    /\ \E i \in pending :
          LET l == IF emits[i].pipe = "access" THEN pair.Access ELSE pair.Error
          IN /\ out' = WSWrite(l.core.out, i, out)
             /\ pending' = pending \ {i}
    /\ UNCHANGED <<pc, opts, cfg, pair, levels, emits, lastSet, nsync, failing,
                   attempts, ret, newErr, ws1, ws2, ws>>

\* AtomicLevel.SetLevel on the cell g refers to
SetLevel(g, lvl) == [levels EXCEPT ![g] = lvl]

SetAccessLevel ==
    /\ pc = "run"
    /\ \E lvl \in Levels :
          /\ levels' = SetLevel(pair.AccessLevel, lvl)
          /\ lastSet' = [lastSet EXCEPT !.access = lvl]
    /\ UNCHANGED <<pc, opts, cfg, pair, emits, pending, out, nsync, failing,
                   attempts, ret, newErr, ws1, ws2, ws>>

SetErrorLevel ==
    /\ pc = "run"
    /\ \E lvl \in Levels :
          /\ levels' = SetLevel(pair.ErrorLevel, lvl)
          /\ lastSet' = [lastSet EXCEPT !.error = lvl]
    /\ UNCHANGED <<pc, opts, cfg, pair, emits, pending, out, nsync, failing,
                   attempts, ret, newErr, ws1, ws2, ws>>

NextEmit ==
    \/ EmitAccess
    \/ EmitError
    \/ WriteEntry
    \/ SetAccessLevel
    \/ SetErrorLevel

SpecEmit == InitRun /\ [][NextEmit]_vars

(***************************************************************************)
(* SpecTee: tee applied to two optional destinations; the result is then   *)
(* written to and flushed                                                  *)
(***************************************************************************)
TeeDests ==
    {Nil, Discard, Console("stdout"), Console("stderr"),
     Lumberjack(rotateCfg("access.log", 0, 0, 0, FALSE)),
     Lumberjack(rotateCfg("error.log", 0, 0, 0, FALSE))}

InitTee ==
    /\ pc = "tee"
    /\ ws1 \in TeeDests /\ ws2 \in TeeDests /\ ws = Nil
    /\ opts = <<>> /\ cfg = DefaultCfg /\ pair = NoPair /\ newErr = NoError
    /\ levels = <<>> /\ lastSet = <<>>
    /\ emits = <<>> /\ pending = {} /\ out = NoOutput
    /\ nsync = 0 /\ failing = {} /\ attempts = <<>> /\ ret = NilError

TeeCall ==
    /\ pc = "tee"
    /\ ws' = tee(ws1, ws2)
    /\ pc' = "teed"
    /\ UNCHANGED <<opts, cfg, pair, levels, emits, pending, out, lastSet, nsync,
                   failing, attempts, ret, newErr, ws1, ws2>>

\* a record written through the result (a nil result cannot be written to)
TeeWrite ==
    /\ pc = "teed" /\ ws # Nil /\ Len(emits) < MaxTeeOps
    /\ emits' = Append(emits, [pipe |-> "tee", sev |-> InfoLevel, passed |-> TRUE])
    /\ out' = WSWrite(ws, Len(emits) + 1, out)
    /\ UNCHANGED <<pc, opts, cfg, pair, levels, pending, lastSet, nsync, failing,
                   attempts, ret, newErr, ws1, ws2, ws>>

\* the result flushed during a call in which the sinks in F fail
TeeSync ==
    /\ pc = "teed" /\ ws # Nil /\ nsync < MaxTeeOps
    /\ \E F \in SUBSET Sinks :
          LET r == WSSync(ws, F)
          IN /\ failing' = F
             /\ attempts' = r.att
             /\ ret' = r.err
    /\ nsync' = nsync + 1
    /\ UNCHANGED <<pc, opts, cfg, pair, levels, emits, pending, out, lastSet,
                   newErr, ws1, ws2, ws>>

NextTee ==
    \/ TeeCall
    \/ TeeWrite
    \/ TeeSync

SpecTee == InitTee /\ [][NextTee]_vars

(***************************************************************************)
(* Vocabulary of the properties                                            *)
(***************************************************************************)
Fields ==
    {"access", "error", "consoleStdout", "consoleStderr", "enc", "zapOpts",
     "initialAccessLevel", "initialErrorLevel"}

\* the fields each option kind is documented to set
TouchedFields(kind) ==
    CASE kind = "WithAccessFile" -> {"access"}
      [] kind = "WithErrorFile" -> {"error"}
      [] kind = "WithConsoleForAccess" -> {"consoleStdout"}
      [] kind = "WithConsoleForError" -> {"consoleStderr"}
      [] kind = "WithInitialLevels" -> {"initialAccessLevel", "initialErrorLevel"}
      [] kind = "WithEncoder" -> {"enc"}
      [] kind = "WithZapOptions" -> {"zapOpts"}

\* position in opts of the last option that touches field f, 0 when none does
LastTouch(f) ==
    LET S == {i \in 1..Len(opts) : f \in TouchedFields(opts[i].kind)}
    IN IF S = {} THEN 0 ELSE CHOOSE i \in S : \A j \in S : j <= i

\* what option o writes to field f when it is the only option
AloneWrites(o, f) == ApplyOption(DefaultCfg, o)[f]

LastWriteWins(f) ==
    LastTouch(f) > 0 => cfg[f] = AloneWrites(opts[LastTouch(f)], f)

RECURSIVE CallerSupplied(_)
\* every zap option handed to a WithZapOptions of the list, in the order supplied
CallerSupplied(ol) ==
    IF ol = <<>> THEN <<>>
    ELSE (IF Head(ol).kind = "WithZapOptions" THEN Head(ol).zopts ELSE <<>>)
         \o CallerSupplied(Tail(ol))

Count(x, seq) == Cardinality({k \in 1..Len(seq) : seq[k] = x})

IsPrefix(a, b) == Len(a) <= Len(b) /\ \A k \in 1..Len(a) : a[k] = b[k]

\* the flush of leaf w fails during the current call
Fails(w) == w.kind # "discard" /\ SinkOf(w) \in failing

RECURSIVE FailedMsgs(_)
\* the messages of the leaf flushes that failed, in the order of the leaves
FailedMsgs(ls) ==
    IF ls = <<>> THEN <<>>
    ELSE (IF Fails(Head(ls)) THEN <<SinkOf(Head(ls))>> ELSE <<>>)
         \o FailedMsgs(Tail(ls))

RECURSIVE Flatten(_)
Flatten(es) == IF es = <<>> THEN <<>> ELSE Head(es) \o Flatten(Tail(es))

Generic == <<"multiple sync errors occurred">>

(***************************************************************************)
(* Properties of New (SpecNew)                                             *)
(***************************************************************************)

\* C3 as claimed: for every option kind, WithZapOptions included, every field
\* ends with exactly the value the last option touching it writes.
C3_LastWriteWinsEveryField == \A f \in Fields : LastWriteWins(f)

\* C3 amended: last-write-wins holds for the fields of the six setting options;
\* WithZapOptions accumulates, the field ending with the concatenation of the
\* arguments of every WithZapOptions of the list, in order.
C3_LastWriteWinsExceptZapOptions ==
    /\ \A f \in Fields \ {"zapOpts"} : LastWriteWins(f)
    /\ cfg.zapOpts = CallerSupplied(opts)

\* two options of the same setting kind with different arguments were folded
C3_Overridden ==
    /\ Len(opts) >= 2
    /\ opts[1].kind = opts[2].kind
    /\ opts[1].kind # "WithZapOptions"
    /\ opts[1] # opts[2]

\* the rotateCfg a file option with these raw arguments is documented to store
StoredOf(o) ==
    [Path |-> o.path,
     MaxSizeMB |-> IF o.maxSizeMB < 0 THEN 0 ELSE o.maxSizeMB,
     MaxBackups |-> IF o.maxBackups < 0 THEN 0 ELSE o.maxBackups,
     MaxAgeDays |-> IF o.maxAgeDays < 0 THEN 0 ELSE o.maxAgeDays,
     Compress |-> o.compress]

\* the rotation collaborator behind logger l was handed exactly r
HandedEqualsStored(l, r) ==
    r.Path # "" =>
        LET w == Leaves(l.core.out)[1]
        IN /\ w.kind = "rotate"
           /\ w.Filename = r.Path /\ w.MaxSize = r.MaxSizeMB
           /\ w.MaxBackups = r.MaxBackups /\ w.MaxAge = r.MaxAgeDays
           /\ w.Compress = r.Compress

\* C4: after any sequence of file options the stored sizes, backups and ages
\* are >= 0: negatives are stored as 0, everything else unchanged; the rotation
\* collaborator is handed the stored values and New reports no failure.
C4_NegativesClampedToZero ==
    /\ \A r \in {cfg.access, cfg.error} :
          r.MaxSizeMB >= 0 /\ r.MaxBackups >= 0 /\ r.MaxAgeDays >= 0
    /\ LastTouch("access") > 0 => cfg.access = StoredOf(opts[LastTouch("access")])
    /\ LastTouch("error") > 0 => cfg.error = StoredOf(opts[LastTouch("error")])
    /\ pc = "built" =>
          /\ newErr = NoError
          /\ HandedEqualsStored(pair.Access, cfg.access)
          /\ HandedEqualsStored(pair.Error, cfg.error)

\* a Pair was built from a file option with a path, a negative and a positive number
C4_NegativeGiven ==
    /\ pc = "built"
    /\ LastTouch("error") > 0
    /\ LET o == opts[LastTouch("error")]
       IN o.path # "" /\ o.maxSizeMB < 0 /\ o.maxBackups > 0 /\ o.compress

BuiltIns == <<AddCaller, AddStacktrace(ErrorLevel)>>

HasOp(zopts, op) == \E k \in 1..Len(zopts) : zopts[k].op = op

\* the option lists of C7: built-ins first on the error logger, caller options
\* only on the access logger
C7_Sequences ==
    /\ pair.Error.options = BuiltIns \o CallerSupplied(opts)
    /\ pair.Access.options = CallerSupplied(opts)

\* C7 as claimed: the sequences, and both built-in behaviours in effect on the
\* error logger (and neither on the access logger) whatever the caller supplied.
C7_BuiltInsAlwaysInEffect ==
    pc = "built" =>
        /\ C7_Sequences
        /\ pair.Error.addCaller /\ pair.Error.addStack = <<ErrorLevel>>

\* C7 amended: the sequences hold for every option list; a built-in behaviour
\* is in effect on the error logger unless a caller-supplied option, applied
\* after it, overrides it.
C7_BuiltInsFirstUnlessOverridden ==
    pc = "built" =>
        /\ C7_Sequences
        /\ ~HasOp(CallerSupplied(opts), "WithCaller(false)") => pair.Error.addCaller
        /\ ~HasOp(CallerSupplied(opts), "AddStacktrace") =>
               pair.Error.addStack = <<ErrorLevel>>
        /\ ~HasOp(pair.Access.options, "AddCaller") /\ pair.Access.addStack = <<>>

\* a Pair was built from two different caller-supplied zap options
C7_TwoCallerOptions ==
    /\ pc = "built"
    /\ Len(CallerSupplied(opts)) >= 2
    /\ CallerSupplied(opts)[1] # CallerSupplied(opts)[2]

\* the value a field holds right after the last option touching it was applied
AfterLastTouch(f) == FoldOptions(DefaultCfg, SubSeq(opts, 1, LastTouch(f)))[f]

\* C8: an option changes only the fields it documents, so a field no option
\* touches keeps its default (empty path, console off, default encoder, no zap
\* options, Info / Error) and the gates start at the configured initial levels.
C8_UntouchedFieldsKeepDefaults ==
    /\ \A f \in Fields : cfg[f] = AfterLastTouch(f)
    /\ LastTouch("access") = 0 => cfg.access.Path = ""
    /\ LastTouch("error") = 0 => cfg.error.Path = ""
    /\ LastTouch("consoleStdout") = 0 => cfg.consoleStdout = FALSE
    /\ LastTouch("consoleStderr") = 0 => cfg.consoleStderr = FALSE
    /\ LastTouch("enc") = 0 => cfg.enc = "defaultEncoder"
    /\ LastTouch("zapOpts") = 0 => cfg.zapOpts = <<>>
    /\ pc = "built" =>
          LET k == LastTouch("initialAccessLevel")
          IN /\ levels[pair.AccessLevel] = IF k = 0 THEN InfoLevel ELSE opts[k].access
             /\ levels[pair.ErrorLevel] = IF k = 0 THEN ErrorLevel ELSE opts[k].err

\* a Pair was built from WithInitialLevels followed by an option on another field
C8_LevelsThenOther ==
    /\ pc = "built"
    /\ Len(opts) = 2
    /\ opts[1].kind = "WithInitialLevels"
    /\ opts[1].access # InfoLevel /\ opts[1].err # ErrorLevel
    /\ opts[2].kind = "WithConsoleForError" /\ opts[2].enable

\* the destination of logger l is present, its file part a present leaf
PresentDestination(l, r, console, stream) ==
    /\ l # NoLogger
    /\ l.core.out # Nil
    /\ Leaves(l.core.out)[1] = (IF r.Path = "" THEN Discard ELSE Lumberjack(r))
    /\ (r.Path = "" /\ console) =>
           l.core.out = NewMultiWriteSyncer(Discard, Console(stream))

\* C10: New returns a Pair with both loggers and no failure, each destination
\* present; with an empty path and the console on, it is the fan-out of the
\* discarding sink and the console.
C10_DestinationsPresent ==
    pc = "built" =>
        /\ newErr = NoError
        /\ pair # NoPair
        /\ PresentDestination(pair.Access, cfg.access, cfg.consoleStdout, "stdout")
        /\ PresentDestination(pair.Error, cfg.error, cfg.consoleStderr, "stderr")

\* a Pair was built with an empty access path and the access console on
C10_EmptyPathWithConsole ==
    pc = "built" /\ cfg.access.Path = "" /\ cfg.consoleStdout /\ cfg.error.Path = ""
    /\ ~cfg.consoleStderr

(***************************************************************************)
(* Properties of Pair.Sync (SpecSync)                                      *)
(***************************************************************************)
AccessLeaves == Leaves(pair.Access.core.out)
ErrorLeaves == Leaves(pair.Error.core.out)

\* C1: every Sync call attempts the flush of the access pipeline, then of the
\* error pipeline, whatever the first one's outcome, and returns no failure
\* exactly when none of this call's attempts failed.
C1_BothPipelinesFlushed ==
    nsync > 0 =>
        /\ attempts = AccessLeaves \o ErrorLeaves
        /\ ret.nil <=> \A k \in 1..Len(attempts) : ~Fails(attempts[k])

\* a second Sync call in which the access console failed, the error console
\* was flushed all the same, and only the access failure is returned
C1_AccessFailedErrorStillFlushed ==
    /\ nsync = 2
    /\ cfg.consoleStdout /\ cfg.consoleStderr
    /\ "stdout" \in failing /\ "stderr" \notin failing
    /\ \E k \in 1..Len(attempts) : attempts[k] = Console("stderr")
    /\ ~ret.nil

\* the message a pipeline's flush reports for the leaf failures ms
PipelineMsg(ms) == IF Len(ms) = 1 THEN <<ms[1]>> ELSE <<ms[1], "; ", ms[2]>>

C5_GateDecidesAtCheck ==
    [][ /\ Len(emits') = Len(emits) + 1 =>
              LET e == emits'[Len(emits')]
              IN /\ e.passed <=> e.sev >= lastSet[e.pipe]
                 /\ Len(emits') \in pending' <=> e.passed
        /\ \A s \in Sinks :
              /\ IsPrefix(out[s], out'[s])
              /\ \A k \in (Len(out[s]) + 1)..Len(out'[s]) :
                    out'[s][k] \in pending /\ emits[out'[s][k]].passed
        /\ lastSet' # lastSet => emits' = emits /\ pending' = pending /\ out' = out
        /\ SubSeq(emits', 1, Len(emits)) = emits
        /\ pair.AccessLevel = pair.Access.core.lvl
        /\ pair.ErrorLevel = pair.Error.core.lvl
        /\ levels'[pair.AccessLevel] = lastSet'.access
        /\ levels'[pair.ErrorLevel] = lastSet'.error
      ]_vars

\* an access record at Info was written to standard-out, the access gate was
\* then raised, and a later access record at Info was suppressed while the
\* first one is still there
C5_SuppressedAfterSet ==
    /\ Len(emits) >= 2
    /\ emits[1].pipe = "access" /\ emits[1].sev = InfoLevel /\ emits[1].passed
    /\ Count(1, out["stdout"]) = 1
    /\ emits[2].pipe = "access" /\ emits[2].sev = InfoLevel /\ ~emits[2].passed
    /\ lastSet.error = ErrorLevel

\* the sinks the configuration routes a pipeline to
Routed(pipe) ==
    IF pipe = "access"
    THEN ({cfg.access.Path} \ {""}) \cup (IF cfg.consoleStdout THEN {"stdout"} ELSE {})
    ELSE ({cfg.error.Path} \ {""}) \cup (IF cfg.consoleStderr THEN {"stderr"} ELSE {})

\* C6: a written record is in exactly the sinks of its own pipeline (its file
\* when the path is non-empty, its console when enabled), once each, and in
\* no other; a record that is suppressed or not yet written is in none.
C6_RoutedToOwnSinksOnly ==
    \A i \in 1..Len(emits) : \A s \in Sinks :
        Count(i, out[s]) =
            IF emits[i].passed /\ i \notin pending /\ s \in Routed(emits[i].pipe)
            THEN 1 ELSE 0

\* an error record is in the error file and on standard-error while the access
\* console is on and the access path is empty
C6_ErrorRecordInFileAndConsole ==
    /\ cfg.error.Path = "error.log" /\ cfg.consoleStderr
    /\ cfg.consoleStdout /\ cfg.access.Path = ""
    /\ \E i \in 1..Len(emits) :
          /\ emits[i].pipe = "error"
          /\ Count(i, out["error.log"]) = 1 /\ Count(i, out["stderr"]) = 1
    /\ \E j \in 1..Len(emits) :
          emits[j].pipe = "access" /\ Count(j, out["stdout"]) = 1

(***************************************************************************)
(* Properties of tee (SpecTee)                                             *)
(***************************************************************************)
\* how many of tee's two arguments deliver to sink s
Deliveries(s) ==
    Cardinality({k \in {1, 2} :
        LET d == <<ws1, ws2>>[k] IN d.kind \in {"rotate", "console"} /\ SinkOf(d) = s})

\* C9: both absent gives absent; one present gives that one unchanged; both
\* present gives a destination that hands every write to both and flushes
\* both, the first then the second, whatever the first flush's outcome.
C9_TeeCombines ==
    pc = "teed" =>
        /\ (ws1 = Nil /\ ws2 = Nil) => ws = Nil
        /\ (ws1 = Nil /\ ws2 # Nil) => ws = ws2
        /\ (ws1 # Nil /\ ws2 = Nil) => ws = ws1
        /\ (ws1 # Nil /\ ws2 # Nil) =>
              /\ \A i \in 1..Len(emits) : \A s \in Sinks :
                    Count(i, out[s]) = Deliveries(s)
              /\ nsync > 0 =>
                    /\ attempts = <<ws1, ws2>>
                    /\ ret = FailedMsgs(<<ws1, ws2>>)

\* both present, a record written, and a flush in which the first failed
C9_FirstFlushFailed ==
    /\ pc = "teed"
    /\ ws1.kind = "rotate" /\ ws2.kind = "console"
    /\ Len(emits) > 0
    /\ nsync > 0 /\ Fails(ws1) /\ ~Fails(ws2)

====
